---------------------------- MODULE Spec2Model ----------------------------
(***************************************************************************)
(* Expense extraction and processing (rodriguezdionisio/expense-extraction)*)
(*                                                                         *)
(* The parts of the repository are modelled each under its own             *)
(* specification:                                                          *)
(*   SpecFlatten  ExpenseProcessor.process_expense_data (JSON:API to rows) *)
(*   SpecSave     ExpenseProcessor.process_range + save_to_csv_by_date     *)
(*   SpecRange    ExpenseExtractor.extract_expenses_range                  *)
(*   SpecOrch     main.py and the range command of run_processing.py       *)
(*   SpecMaint    run_maintenance_extraction + run_maintenance_processing  *)
(*   SpecRaw      FudoRawExtractor.extract_raw_data (src/src)              *)
(*                                                                         *)
(* Representation.  A text (a Python str, a CSV cell) is a sequence of     *)
(* one-character strings.  Python's None / pandas NA is the text None,     *)
(* which no sequence of characters equals.  A nullable JSON member that    *)
(* holds an object is a sequence of at most one record.  A Python dict     *)
(* with optional keys is a function whose DOMAIN is the keys present.      *)
(* The local file system is taken to be reliable: open/json.dump/to_csv    *)
(* succeed.                                                                *)
(***************************************************************************)
EXTENDS Integers, Sequences, FiniteSets, TLC

VARIABLES
    \* ---- process_expense_data (SpecFlatten)
    expense_data,       \* the JSON document handed to process_expense_data
    flat,               \* <<>> before the call, <<[row, items]>> after it
    \* ---- process_range + save_to_csv_by_date (SpecSave)
    partitions,         \* processed_data/date=D/ for every date D
    prevPartitions,     \* history: partitions before the last run
    lastDocs,           \* history: extraction_data/expense_N.json read by the last run
    lastOp,             \* history: "none", "run" or "rerun"
    runs,               \* number of runs so far
    \* ---- extract_expenses_range (SpecRange)
    start_id, end_id, batch_size, save_individual,   \* the arguments
    current_id, consecutive_404s, expenses, individual_files,  \* the locals
    files,              \* extraction_data/expense_N.json written by the run
    batches,            \* batch files written by save_batch
    requested,          \* history: IDs handed to get_expense_by_id
    answered,           \* history: IDs that answered with data
    errors_counted,     \* history: exceptions counted in consecutive_404s
    pc,                 \* "loop", "done"
    result,             \* <<>> or <<[expenses, last_id]>>
    \* ---- main.py and run_processing.py (SpecOrch)
    orch,               \* the state of one command-line run
    \* ---- run_maintenance_extraction + run_maintenance_processing (SpecMaint)
    api_pages,          \* what GET /expenses answers for page 1, 2, ...
    max_pages,          \* config.EXPENSE_MAX_PAGES
    page, all_expenses, \* the locals of extract_recent_expenses
    page_data,          \* its local "data": the last response, <<>> before it
    pages_requested,    \* history: the page numbers requested, in order
    extraction_dir,     \* extraction_data/: file name -> content
    processing,         \* <<>> or <<the outcome of run_maintenance_processing>>
    mpc,                \* "extract", "extracted", "failed", "processed"
    \* ---- FudoRawExtractor.extract_raw_data (SpecRaw)
    raw                 \* the state of one call of extract_raw_data

flattenVars == <<expense_data, flat>>
saveVars    == <<partitions, prevPartitions, lastDocs, lastOp, runs>>
rangeVars   == <<start_id, end_id, batch_size, save_individual, current_id,
                 consecutive_404s, expenses, individual_files, files, batches,
                 requested, answered, errors_counted, pc, result>>
orchVars    == <<orch>>
maintVars   == <<api_pages, max_pages, page, all_expenses, page_data,
                 pages_requested, extraction_dir, processing, mpc>>
\* the parts added to the three first ones
rawVars     == <<raw>>
restVars    == <<orchVars, maintVars, rawVars>>
vars        == <<flattenVars, saveVars, rangeVars, restVars>>

-----------------------------------------------------------------------------
(* Texts                                                                   *)

None == <<"None">>

Digits == {"0", "1", "2", "3", "4", "5", "6", "7", "8", "9"}

DigitVal(c) ==
    CASE c = "0" -> 0 [] c = "1" -> 1 [] c = "2" -> 2 [] c = "3" -> 3
      [] c = "4" -> 4 [] c = "5" -> 5 [] c = "6" -> 6 [] c = "7" -> 7
      [] c = "8" -> 8 [] c = "9" -> 9

DigitChar(d) ==
    CASE d = 0 -> "0" [] d = 1 -> "1" [] d = 2 -> "2" [] d = 3 -> "3"
      [] d = 4 -> "4" [] d = 5 -> "5" [] d = 6 -> "6" [] d = 7 -> "7"
      [] d = 8 -> "8" [] d = 9 -> "9"

\* int(t) for a text of decimal digits (leading zeros allowed)
RECURSIVE ParseInt(_)
ParseInt(t) ==
    IF Len(t) = 0 THEN 0
    ELSE 10 * ParseInt(SubSeq(t, 1, Len(t) - 1)) + DigitVal(t[Len(t)])

\* str(n) for n >= 0
RECURSIVE FormatInt(_)
FormatInt(n) ==
    IF n < 10 THEN <<DigitChar(n)>>
    ELSE Append(FormatInt(n \div 10), DigitChar(n % 10))

IsIntText(t) == t # None /\ Len(t) > 0 /\ \A i \in 1..Len(t) : t[i] \in Digits

\* a decimal literal whose fraction is zero: the only floats the model holds
\* are whole numbers that pandas stores as float64 (rendered "7.0")
IsFloatText(t) ==
    /\ t # None
    /\ \E k \in 2..(Len(t) - 1) :
          /\ t[k] = "."
          /\ IsIntText(SubSeq(t, 1, k - 1))
          /\ \A i \in (k + 1)..Len(t) : t[i] = "0"

IntPart(t) ==
    LET k == CHOOSE j \in 1..Len(t) : t[j] = "." IN SubSeq(t, 1, k - 1)

\* the number a numeric text denotes
NumberOf(t) == IF IsIntText(t) THEN ParseInt(t) ELSE ParseInt(IntPart(t))

\* repr(float(n)) for a whole number n
FormatFloat(n) == FormatInt(n) \o <<".", "0">>


-----------------------------------------------------------------------------
(* Python values                                                           *)

True  == <<"True">>
False == <<"False">>

\* d.get(k)
Get(d, k) == IF k \in DOMAIN d THEN d[k] ELSE None

\* bool(s) of a str or None
Truthy(t) == t # None /\ t # <<>>

\* relationships.get(name, {}).get('data'): <<>> when the relationship is
\* missing or its data is null, <<ref>> for a to-one reference, the list of
\* references for a to-many relationship
RelData(relationships, name) ==
    IF name \in DOMAIN relationships THEN relationships[name].data ELSE <<>>

SetMax(S) == CHOOSE x \in S : \A y \in S : y <= x
SetMin(S) == CHOOSE x \in S : \A y \in S : x <= y

-----------------------------------------------------------------------------
(* ExpenseProcessor.process_expense_data                                   *)

\* f"{item_type}_{item_id}"
IncludedKey(type, id) == <<type, "_">> \o id

\* included_by_type_id.get(key, {}): the attributes of the last included
\* item whose type and id are truthy and form the key, else the empty dict
IncludedByTypeId(included, key) ==
    LET hits == {i \in 1..Len(included) :
                    /\ included[i].type # ""
                    /\ Truthy(included[i].id)
                    /\ IncludedKey(included[i].type, included[i].id) = key}
    IN  IF hits = {} THEN <<>> ELSE included[SetMax(hits)].attributes

\* RelationColumns as it would be if the name were never looked up
RelationColumnsNoLookup(relationships, included, rel, type, cols) ==
    LET data == RelData(relationships, rel)
    IN  IF data = <<>> THEN <<>>
        ELSE (cols.id   :> Get(data[1], "id"))
          @@ (cols.name :> None)

\* one "if <rel>:" block: <prefix>_id and <prefix>_name, set only when the
\* relationship has data
RelationColumns(relationships, included, rel, type, cols) ==
    LET data == RelData(relationships, rel)
    IN  IF data = <<>> THEN <<>>
        ELSE LET attrs == IncludedByTypeId(included,
                              IncludedKey(type, Get(data[1], "id")))
             IN  (cols.id   :> Get(data[1], "id"))
              @@ (cols.name :> Get(attrs, "name"))

\* the payment method block also copies the code
PaymentMethodColumns(relationships, included) ==
    LET data == RelData(relationships, "paymentMethod")
    IN  IF data = <<>> THEN <<>>
        ELSE LET attrs == IncludedByTypeId(included,
                              IncludedKey("PaymentMethod", Get(data[1], "id")))
             IN  ("payment_method_code" :> Get(attrs, "code"))

\* the unit name of a product or ingredient: the first included item of
\* that type and id decides
UnitName(included, type, id) ==
    LET hits == {i \in 1..Len(included) :
                    included[i].type = type /\ included[i].id = id}
    IN  IF hits = {} THEN None
        ELSE LET unit == RelData(included[SetMin(hits)].relationships, "unit")
             IN  IF unit = <<>> THEN None
                 ELSE Get(IncludedByTypeId(included,
                              IncludedKey("Unit", Get(unit[1], "id"))), "name")

\* the product / ingredient columns of an item row
ItemRelationColumns(item, included, rel, type, cols) ==
    LET data == RelData(item.relationships, rel)
    IN  IF data = <<>> THEN <<>>
        ELSE LET id    == Get(data[1], "id")
                 attrs == IncludedByTypeId(included, IncludedKey(type, id))
             IN  (cols.id   :> id)
              @@ (cols.name :> Get(attrs, "name"))
              @@ (cols.cost :> Get(attrs, "cost"))
              @@ (cols.unit :> UnitName(included, type, id))

ItemRow(item, item_id, expense_id, included) ==
    [ expense_item_id |-> item_id,
      expense_id      |-> expense_id,
      canceled        |-> Get(item.attributes, "canceled"),
      detail          |-> Get(item.attributes, "detail"),
      price           |-> Get(item.attributes, "price"),
      quantity        |-> Get(item.attributes, "quantity") ]
    @@ ItemRelationColumns(item, included, "product", "Product",
                           [id |-> "product_id", name |-> "product_name",
                            cost |-> "product_cost", unit |-> "product_unit"])
    @@ ItemRelationColumns(item, included, "ingredient", "Ingredient",
                           [id |-> "ingredient_id", name |-> "ingredient_name",
                            cost |-> "ingredient_cost", unit |-> "ingredient_unit"])

\* the loop over relationships.expenseItems.data: an item that is not in
\* included is skipped
RECURSIVE ExpenseItemsRows(_, _, _)
ExpenseItemsRows(refs, included, expense_id) ==
    IF refs = <<>> THEN <<>>
    ELSE LET item_id == Get(Head(refs), "id")
             hits == {i \in 1..Len(included) :
                         included[i].type = "ExpenseItem"
                         /\ included[i].id = item_id}
             rest == ExpenseItemsRows(Tail(refs), included, expense_id)
         IN  IF hits = {} THEN rest
             ELSE <<ItemRow(included[SetMin(hits)], item_id, expense_id,
                            included)>> \o rest

\* (expense_row, expense_items_rows)
process_expense_data(doc) ==
    LET main_data     == doc.data
        expense_id    == Get(main_data, "id")
        attributes    == main_data.attributes
        relationships == main_data.relationships
        included      == doc.included
        expense_row ==
            [ expense_id        |-> expense_id,
              amount            |-> Get(attributes, "amount"),
              canceled          |-> Get(attributes, "canceled"),
              created_at        |-> Get(attributes, "createdAt"),
              date              |-> Get(attributes, "date"),
              description       |-> Get(attributes, "description"),
              due_date          |-> Get(attributes, "dueDate"),
              payment_date      |-> Get(attributes, "paymentDate"),
              receipt_number    |-> Get(attributes, "receiptNumber"),
              use_in_cash_count |-> Get(attributes, "useInCashCount") ]
            @@ RelationColumns(relationships, included,
                               "cashRegister", "CashRegister", [id |-> "cash_register_id", name |-> "cash_register_name"])
            @@ RelationColumns(relationships, included,
                               "paymentMethod", "PaymentMethod", [id |-> "payment_method_id", name |-> "payment_method_name"])
            @@ PaymentMethodColumns(relationships, included)
            @@ RelationColumns(relationships, included,
                               "provider", "Provider", [id |-> "provider_id", name |-> "provider_name"])
            @@ RelationColumns(relationships, included,
                               "receiptType", "ReceiptType", [id |-> "receipt_type_id", name |-> "receipt_type_name"])
            @@ RelationColumns(relationships, included,
                               "user", "User", [id |-> "user_id", name |-> "user_name"])
            @@ RelationColumns(relationships, included,
                               "expenseCategory", "ExpenseCategory",
                               [id |-> "expense_category_id",
                                name |-> "expense_category_name"])
    IN  [ expense_row |-> expense_row,
          expense_items_rows |->
          ExpenseItemsRows(RelData(relationships, "expenseItems"), included,
                           expense_id) ]


-----------------------------------------------------------------------------
(* The JSON:API documents the API answers with (get_expense_by_id asks for *)
(* these fields and includes)                                              *)

\* the to-one relationships of an expense and the type of their target
ToOneRels == {"cashRegister", "paymentMethod", "provider", "receiptType",
              "user", "expenseCategory"}

TypeOfRel(rel) ==
    CASE rel = "cashRegister"    -> "CashRegister"
      [] rel = "paymentMethod"   -> "PaymentMethod"
      [] rel = "provider"        -> "Provider"
      [] rel = "receiptType"     -> "ReceiptType"
      [] rel = "user"            -> "User"
      [] rel = "expenseCategory" -> "ExpenseCategory"

\* the name attribute the API holds for the entity of a type
EntityName(type) ==
    CASE type = "CashRegister"    -> <<"C", "a", "j", "a">>
      [] type = "PaymentMethod"   -> <<"C", "a", "s", "h">>
      [] type = "Provider"        -> <<"A", "c", "m", "e">>
      [] type = "ReceiptType"     -> <<"F", "A">>
      [] type = "User"            -> <<"A", "n", "a">>
      [] type = "ExpenseCategory" -> <<"R", "e", "n", "t">>

Ref(type, id) == [type |-> type, id |-> id]

Entity(type, id, attrs) ==
    [type |-> type, id |-> id, attributes |-> attrs, relationships |-> <<>>]

\* How a relationship can look in a document:
\*   absent   no such key in relationships
\*   null     data is null
\*   named    data refers to id 1, included holds that entity with a name
\*   other    data refers to id 2, included holds only the entity of id 1
\*   unnamed  data refers to id 1, included holds it without a name attribute
RelShapes == {"absent", "null", "named", "other", "unnamed"}

RelOfShape(rel, shape) ==
    CASE shape = "absent"  -> <<>>
      [] shape = "null"    -> (rel :> [data |-> <<>>])
      [] shape = "other"   -> (rel :> [data |-> <<Ref(TypeOfRel(rel), <<"2">>)>>])
      [] OTHER             -> (rel :> [data |-> <<Ref(TypeOfRel(rel), <<"1">>)>>])

IncludedOfShape(rel, shape) ==
    CASE shape \in {"named", "other"} ->
             <<Entity(TypeOfRel(rel), <<"1">>,
                      [name |-> EntityName(TypeOfRel(rel)),
                       code |-> <<"c">>])>>
      [] shape = "unnamed" -> <<Entity(TypeOfRel(rel), <<"1">>, <<>>)>>
      [] OTHER -> <<>>

\* the attributes of an expense
Attributes(date, receiptNumber, paymentDate) ==
    [ amount         |-> <<"1", "5", "0">>,
      canceled       |-> False,
      createdAt      |-> None,
      date           |-> date,
      description    |-> None,
      dueDate        |-> None,
      paymentDate    |-> paymentDate,
      receiptNumber  |-> receiptNumber,
      useInCashCount |-> True ]

\* a document whose to-one relationships have the given shapes
ShapedDoc(id, attrs, shape, itemRefs, itemEntities) ==
    [ data |->
        [ id            |-> id,
          attributes    |-> attrs,
          relationships |->
              RelOfShape("cashRegister", shape["cashRegister"])
              @@ RelOfShape("paymentMethod", shape["paymentMethod"])
              @@ RelOfShape("provider", shape["provider"])
              @@ RelOfShape("receiptType", shape["receiptType"])
              @@ RelOfShape("user", shape["user"])
              @@ RelOfShape("expenseCategory", shape["expenseCategory"])
              @@ ("expenseItems" :> [data |-> itemRefs]) ],
      included |->
          itemEntities
          \o IncludedOfShape("cashRegister", shape["cashRegister"])
          \o IncludedOfShape("paymentMethod", shape["paymentMethod"])
          \o IncludedOfShape("provider", shape["provider"])
          \o IncludedOfShape("receiptType", shape["receiptType"])
          \o IncludedOfShape("user", shape["user"])
          \o IncludedOfShape("expenseCategory", shape["expenseCategory"]) ]

D1 == <<"2", "0", "2", "4", "-", "0", "1", "-", "0", "5">>
D2 == <<"2", "0", "2", "4", "-", "0", "1", "-", "0", "6">>

FlattenDocs ==
    { ShapedDoc(<<"7">>, Attributes(D1, <<"A", "1">>, None), shape, <<>>, <<>>) :
        shape \in [ToOneRels -> RelShapes] }

-----------------------------------------------------------------------------
(* Idle values of the parts a specification does not exercise              *)

IdleFlatten ==
    /\ expense_data = <<>>
    /\ flat = <<>>

IdleSave ==
    /\ partitions = <<>>
    /\ prevPartitions = <<>>
    /\ lastDocs = <<>>
    /\ lastOp = "none"
    /\ runs = 0

IdleRange ==
    /\ start_id = 0
    /\ end_id = 0
    /\ batch_size = 0
    /\ save_individual = FALSE
    /\ current_id = 0
    /\ consecutive_404s = 0
    /\ expenses = <<>>
    /\ individual_files = <<>>
    /\ files = <<>>
    /\ batches = <<>>
    /\ requested = {}
    /\ answered = {}
    /\ errors_counted = 0
    /\ pc = "idle"
    /\ result = <<>>

IdleOrch ==
    /\ orch = <<>>

IdleMaint ==
    /\ api_pages = <<>>
    /\ max_pages = 0
    /\ page = 0
    /\ all_expenses = <<>>
    /\ page_data = <<>>
    /\ pages_requested = <<>>
    /\ extraction_dir = <<>>
    /\ processing = <<>>
    /\ mpc = "idle"

IdleRaw ==
    /\ raw = <<>>

IdleRest ==
    /\ IdleOrch
    /\ IdleMaint
    /\ IdleRaw

-----------------------------------------------------------------------------
(* SpecFlatten: process_expense_data applied to one document               *)

InitFlatten ==
    /\ expense_data \in FlattenDocs
    /\ flat = <<>>
    /\ IdleSave
    /\ IdleRange
    /\ IdleRest

Flatten ==
    /\ flat = <<>>
    /\ flat' = <<process_expense_data(expense_data)>>
    /\ UNCHANGED <<expense_data, saveVars, rangeVars, restVars>>

NextFlatten == Flatten

SpecFlatten == InitFlatten /\ [][NextFlatten]_vars

\* the included entity a reference points to, by the reference's own type
\* and id
Referenced(doc, ref) ==
    {i \in 1..Len(doc.included) :
        doc.included[i].type = ref.type /\ doc.included[i].id = ref.id}

IdColumn(rel) ==
    CASE rel = "cashRegister"    -> "cash_register_id"
      [] rel = "paymentMethod"   -> "payment_method_id"
      [] rel = "provider"        -> "provider_id"
      [] rel = "receiptType"     -> "receipt_type_id"
      [] rel = "user"            -> "user_id"
      [] rel = "expenseCategory" -> "expense_category_id"

NameColumn(rel) ==
    CASE rel = "cashRegister"    -> "cash_register_name"
      [] rel = "paymentMethod"   -> "payment_method_name"
      [] rel = "provider"        -> "provider_name"
      [] rel = "receiptType"     -> "receipt_type_name"
      [] rel = "user"            -> "user_name"
      [] rel = "expenseCategory" -> "expense_category_name"

\* C9: for every to-one relationship of the flattened expense: with data
\* present, <rel>_id is the referenced id and <rel>_name is the name
\* attribute of the included entity of that type and id, or null when no
\* such entity (or no name) is included; without data neither column is set.
C9_NamesResolvedFromIncluded ==
    flat # <<>> =>
        \A rel \in ToOneRels :
            LET row  == flat[1].expense_row
                data == RelData(expense_data.data.relationships, rel)
            IN  IF data = <<>>
                THEN /\ IdColumn(rel) \notin DOMAIN row
                     /\ NameColumn(rel) \notin DOMAIN row
                ELSE /\ IdColumn(rel) \in DOMAIN row
                     /\ NameColumn(rel) \in DOMAIN row
                     /\ row[IdColumn(rel)] = data[1].id
                     /\ row[NameColumn(rel)] =
                          IF Referenced(expense_data, data[1]) = {} THEN None
                          ELSE Get(expense_data.included[
                                     SetMin(Referenced(expense_data, data[1]))
                                   ].attributes, "name")

\* a flattened expense with a resolved name, an unresolved reference and a
\* relationship without data
C9_Witness ==
    /\ flat # <<>>
    /\ "cash_register_name" \in DOMAIN flat[1].expense_row
    /\ flat[1].expense_row["cash_register_name"] = EntityName("CashRegister")
    /\ "provider_id" \in DOMAIN flat[1].expense_row
    /\ "provider_name" \in DOMAIN flat[1].expense_row
    /\ flat[1].expense_row["provider_id"] = <<"2">>
    /\ flat[1].expense_row["provider_name"] = None
    /\ "user_id" \notin DOMAIN flat[1].expense_row
    /\ RelData(expense_data.data.relationships, "user") = <<>>


-----------------------------------------------------------------------------
(* pandas conversions, each followed by the cell to_csv writes for it.     *)
(* A whole number is written in one way whatever its dtype (7 and 7.0 are  *)
(* the same number); in a column of strings the rendering is the value,    *)
(* and it is kept as pandas produces it.                                   *)

IsDigit(c) == c \in Digits

IsNumericText(t) == IsIntText(t) \/ IsFloatText(t)

\* pd.to_numeric(x, errors='coerce').astype('Int64'): NA is the empty cell
Int64Cell(t) == IF IsNumericText(t) THEN FormatInt(NumberOf(t)) ELSE <<>>

\* pd.to_numeric(x, errors='coerce').fillna(0).astype('int64')
Int64FillCell(t) == IF IsNumericText(t) THEN FormatInt(NumberOf(t)) ELSE <<"0">>

\* pd.to_numeric(x, errors='coerce').astype('float64')
Float64Cell(t) == IF IsNumericText(t) THEN FormatFloat(NumberOf(t)) ELSE <<>>

\* astype('boolean')
BooleanCell(b) ==
    IF b = True THEN <<"T", "r", "u", "e">>
    ELSE IF b = False THEN <<"F", "a", "l", "s", "e">>
    ELSE <<>>

\* astype('string'): None is written as the empty cell
StringCell(t) == IF t = None THEN <<>> ELSE t

\* date_to_int: int(pd.to_datetime(s).strftime('%Y%m%d')) of an ISO date
date_to_int(date_str) ==
    IF date_str = None THEN None
    ELSE FormatInt(ParseInt(SelectSeq(date_str, IsDigit)))

\* process_created_at of a missing createdAt (the documents of the model
\* carry no creation time)
process_created_at(created_at_str) == [date_key |-> None, time_key |-> None]

\* the number in a key cell; the empty cell (NA) is no key
KeyOf(cell) == IF IsNumericText(cell) THEN NumberOf(cell) ELSE -1

\* df.columns of a DataFrame built from a list of dicts
Columns(rows) == UNION {DOMAIN rows[i] : i \in 1..Len(rows)}

RECURSIVE InsertByKey(_, _, _)
InsertByKey(row, sorted, col) ==
    IF sorted = <<>> THEN <<row>>
    ELSE IF KeyOf(row[col]) < KeyOf(Head(sorted)[col])
         THEN <<row>> \o sorted
         ELSE <<Head(sorted)>> \o InsertByKey(row, Tail(sorted), col)

\* sort_values as it would be if the frame were written in concat order
sort_values_unsorted(rows, col) == rows

\* df.sort_values(col).reset_index(drop=True) of a numeric column
RECURSIVE sort_values(_, _)
sort_values(rows, col) ==
    IF rows = <<>> THEN <<>>
    ELSE InsertByKey(rows[Len(rows)],
                     sort_values(SubSeq(rows, 1, Len(rows) - 1), col), col)

\* WithoutKeys as it would be if the filter dropped nothing
WithoutKeysKeepsAll(rows, col, keys) == rows

\* df[~df[col].isin(keys)]
RECURSIVE WithoutKeys(_, _, _)
WithoutKeys(rows, col, keys) ==
    IF rows = <<>> THEN <<>>
    ELSE (IF KeyOf(Head(rows)[col]) \in keys THEN <<>> ELSE <<Head(rows)>>)
         \o WithoutKeys(Tail(rows), col, keys)

\* df[df[col].isin(values)] and df[df[col] == value]
RECURSIVE WithValues(_, _, _)
WithValues(rows, col, values) ==
    IF rows = <<>> THEN <<>>
    ELSE (IF Head(rows)[col] \in values THEN <<Head(rows)>> ELSE <<>>)
         \o WithValues(Tail(rows), col, values)

Range(seq) == {seq[i] : i \in 1..Len(seq)}

-----------------------------------------------------------------------------
(* pd.read_csv followed by to_csv: what a stored cell looks like after the *)
(* file was read without dtype and written again                           *)

\* the cells of a column as pd.read_csv types them and to_csv writes them
\* back: all integers -> int64; numbers with an empty cell or a decimal
\* point -> float64; anything else stays text
ReparseCell(cell, columnCells) ==
    LET filled == {c \in columnCells : c # <<>>}
    IN  IF cell = <<>> \/ filled = {} THEN cell
        ELSE IF \A c \in filled : IsIntText(c)
             THEN IF <<>> \in columnCells
                  THEN FormatFloat(ParseInt(cell))
                  ELSE FormatInt(ParseInt(cell))
        ELSE IF \A c \in filled : IsNumericText(c)
             THEN FormatFloat(NumberOf(cell))
        ELSE cell

\* the columns written from a string dtype
StringColumns == {"expense_note", "receipt_number", "item_detail",
                  "product_name", "product_unit", "ingredient_name",
                  "ingredient_unit"}

\* pd.read_csv(file)
read_csv(rows) ==
    [ i \in 1..Len(rows) |->
        [ col \in DOMAIN rows[i] |->
            IF col \in StringColumns
            THEN ReparseCell(rows[i][col],
                             {rows[j][col] : j \in 1..Len(rows)})
            ELSE rows[i][col] ] ]

-----------------------------------------------------------------------------
(* ExpenseProcessor.transform_expenses_dataframe and                       *)
(* transform_expense_items_dataframe, row by row                           *)

\* the final_columns of an expense row
transform_expenses_row(row) ==
    [ expense_key        |-> Int64Cell(row.expense_id),
      expense_amount     |-> Float64Cell(row.amount),
      cancelled          |-> BooleanCell(row.canceled),
      expense_date_key   |-> StringCell(date_to_int(row.date)),
      payment_date_key   |-> StringCell(date_to_int(row.payment_date)),
      due_date_key       |-> StringCell(date_to_int(row.due_date)),
      created_date_key   |-> StringCell(process_created_at(row.created_at).date_key),
      created_time_key   |-> StringCell(process_created_at(row.created_at).time_key),
      expense_note       |-> StringCell(row.description),
      receipt_number     |-> StringCell(row.receipt_number),
      use_in_cash_count  |-> BooleanCell(row.use_in_cash_count),
      cash_register_key  |-> Int64Cell(Get(row, "cash_register_id")),
      payment_method_key |-> Int64Cell(Get(row, "payment_method_id")),
      provider_key       |-> Int64Cell(Get(row, "provider_id")),
      receipt_type_key   |-> Int64FillCell(Get(row, "receipt_type_id")),
      employee_key       |-> Int64Cell(Get(row, "user_id")) ]

transform_expenses_dataframe(rows) ==
    [i \in 1..Len(rows) |-> transform_expenses_row(rows[i])]

\* the final_columns of an item row; columns is df.columns of the items
\* frame of the whole batch: a cost column that no item has is filled with
\* 0.0
transform_expense_items_row(row, columns) ==
    [ expense_order_key |-> Int64FillCell(row.expense_item_id),
      expense_key       |-> Int64FillCell(row.expense_id),
      cancelled         |-> BooleanCell(row.canceled),
      item_detail       |-> StringCell(row.detail),
      item_price        |-> Float64Cell(row.price),
      item_quantity     |-> Float64Cell(row.quantity),
      product_key       |-> Int64FillCell(Get(row, "product_id")),
      product_name      |-> StringCell(Get(row, "product_name")),
      product_cost      |-> IF "product_cost" \in columns
                            THEN Float64Cell(Get(row, "product_cost"))
                            ELSE <<"0", ".", "0">>,
      product_unit      |-> StringCell(Get(row, "product_unit")),
      ingredient_key    |-> Int64FillCell(Get(row, "ingredient_id")),
      ingredient_name   |-> StringCell(Get(row, "ingredient_name")),
      ingredient_cost   |-> IF "ingredient_cost" \in columns
                            THEN Float64Cell(Get(row, "ingredient_cost"))
                            ELSE <<"0", ".", "0">>,
      ingredient_unit   |-> StringCell(Get(row, "ingredient_unit")) ]

transform_expense_items_dataframe(rows, columns) ==
    [i \in 1..Len(rows) |-> transform_expense_items_row(rows[i], columns)]


-----------------------------------------------------------------------------
(* ExpenseProcessor.save_to_csv_by_date                                    *)

\* a file of a partition directory: whether it exists, and its rows
NoFile == [exists |-> FALSE, rows |-> <<>>]

NoPartition == [fact_expenses |-> NoFile, fact_expense_orders |-> NoFile]

\* the header-only frame written when a date has no items at all
EmptyItemsFrame == <<>>

\* SaveFactExpenses as it would be if a stored row won over the new one:
\* the new rows whose key is already stored are dropped instead
SaveFactExpensesKeepOld(file, expenses_for_date, expense_ids_for_date) ==
    LET existing_expenses_df ==
            IF file.exists THEN read_csv(file.rows) ELSE <<>>
        old_expense_keys ==
            {KeyOf(r.expense_key) : r \in Range(existing_expenses_df)}
    IN  [ exists |-> TRUE,
          rows   |-> sort_values(
                        existing_expenses_df
                        \o WithoutKeys(expenses_for_date, "expense_key",
                                       old_expense_keys),
                        "expense_key") ]

\* "PROCESAR FACT_EXPENSES.CSV": read the existing file, drop its rows whose
\* expense_key is among the new ones, append the new rows, sort, write.
\* Every file on disk was written by this code, so it has an expense_key
\* column; the branches for the older expense_id layout are not taken.
SaveFactExpenses(file, expenses_for_date, expense_ids_for_date) ==
    LET existing_expenses_df ==
            IF file.exists THEN read_csv(file.rows) ELSE <<>>
        new_expense_keys ==
            {KeyOf(r.expense_key) : r \in Range(expenses_for_date)}
        combined_expenses_df ==
            IF existing_expenses_df # <<>>
            THEN (IF "expense_key" \in Columns(existing_expenses_df)
                  THEN WithoutKeys(existing_expenses_df, "expense_key",
                                   new_expense_keys)
                  ELSE existing_expenses_df)
                 \o expenses_for_date
            ELSE expenses_for_date
    IN  [ exists |-> TRUE,
          rows   |-> IF "expense_key" \in Columns(combined_expenses_df)
                     THEN sort_values(combined_expenses_df, "expense_key")
                     ELSE sort_values(combined_expenses_df, "expense_id") ]

\* "PROCESAR FACT_EXPENSE_ORDERS.CSV": the existing items of the new
\* expenses are dropped only when the run brings items for this date
SaveFactExpenseOrders(file, expenses_for_date, expense_items_for_date, expense_ids_for_date) ==
    LET existing_expense_items_df ==
            IF file.exists THEN read_csv(file.rows) ELSE <<>>
        expense_keys_for_date ==
            {KeyOf(r.expense_key) : r \in Range(expenses_for_date)}
        combined_expense_items_df ==
            IF existing_expense_items_df # <<>> /\ expense_items_for_date # <<>>
            THEN (IF "expense_key" \in Columns(existing_expense_items_df)
                  THEN WithoutKeys(existing_expense_items_df, "expense_key",
                                   expense_keys_for_date)
                  ELSE existing_expense_items_df)
                 \o expense_items_for_date
            ELSE IF expense_items_for_date # <<>> THEN expense_items_for_date
            ELSE IF existing_expense_items_df # <<>>
                 THEN existing_expense_items_df
            ELSE EmptyItemsFrame
    IN  [ exists |-> TRUE,
          rows   |-> IF combined_expense_items_df # <<>>
                        /\ "expense_order_key" \in Columns(combined_expense_items_df)
                     THEN sort_values(combined_expense_items_df,
                                      "expense_order_key")
                     ELSE combined_expense_items_df ]

\* SaveDate as it would be without the filter by date
SaveDateUnfiltered(partition, date_str, expenses_df, expense_items_df) ==
    LET raw_expenses_for_date == expenses_df
        expense_ids_for_date ==
            {r.expense_id : r \in Range(raw_expenses_for_date)}
        raw_items_for_date ==
            IF expense_items_df # <<>>
            THEN WithValues(expense_items_df, "expense_id", expense_ids_for_date)
            ELSE <<>>
        expenses_for_date == transform_expenses_dataframe(raw_expenses_for_date)
        expense_items_for_date ==
            transform_expense_items_dataframe(raw_items_for_date,
                                              Columns(expense_items_df))
    IN  [ fact_expenses |->
              SaveFactExpenses(partition.fact_expenses, expenses_for_date,
                               expense_ids_for_date),
          fact_expense_orders |->
              SaveFactExpenseOrders(partition.fact_expense_orders,
                                    expenses_for_date, expense_items_for_date,
                                    expense_ids_for_date) ]

\* one turn of "for date_str in unique_dates": the directory date=date_str
\* after it
SaveDate(partition, date_str, expenses_df, expense_items_df) ==
    LET raw_expenses_for_date == WithValues(expenses_df, "date", {date_str})
        expense_ids_for_date ==
            {r.expense_id : r \in Range(raw_expenses_for_date)}
        raw_items_for_date ==
            IF expense_items_df # <<>>
            THEN WithValues(expense_items_df, "expense_id", expense_ids_for_date)
            ELSE <<>>
        expenses_for_date == transform_expenses_dataframe(raw_expenses_for_date)
        expense_items_for_date ==
            transform_expense_items_dataframe(raw_items_for_date,
                                              Columns(expense_items_df))
    IN  [ fact_expenses |->
              SaveFactExpenses(partition.fact_expenses, expenses_for_date,
                               expense_ids_for_date),
          fact_expense_orders |->
              SaveFactExpenseOrders(partition.fact_expense_orders,
                                    expenses_for_date, expense_items_for_date,
                                    expense_ids_for_date) ]

\* expenses_df['date'].dropna().unique()
UniqueDates(expenses_df) == {r.date : r \in Range(expenses_df)} \ {None}

\* the processed_data directory after save_to_csv_by_date
save_to_csv_by_date(parts, expenses_df, expense_items_df) ==
    IF expenses_df = <<>> THEN parts
    ELSE [ d \in DOMAIN parts |->
             IF d \in UniqueDates(expenses_df)
             THEN SaveDate(parts[d], d, expenses_df, expense_items_df)
             ELSE parts[d] ]


-----------------------------------------------------------------------------
(* ExpenseProcessor.process_range                                          *)

\* the IDs of a set in ascending order: range(start_id, end_id + 1)
\* restricted to the files that exist
RECURSIVE Ascending(_)
Ascending(S) ==
    IF S = {} THEN <<>> ELSE <<SetMin(S)>> \o Ascending(S \ {SetMin(S)})

RECURSIVE ConcatAll(_)
ConcatAll(seqs) ==
    IF seqs = <<>> THEN <<>> ELSE Head(seqs) \o ConcatAll(Tail(seqs))

\* docs maps the IDs whose expense_<id>.json exists in the range to the
\* document in the file
process_range(docs) ==
    LET ids == Ascending(DOMAIN docs)
        processed == [i \in 1..Len(ids) |-> process_expense_data(docs[ids[i]])]
    IN  [ expenses_df      |-> [i \in 1..Len(ids) |-> processed[i].expense_row],
          expense_items_df |->
              ConcatAll([i \in 1..Len(ids) |-> processed[i].expense_items_rows]) ]

\* run_range_processing: nothing is saved when the range holds no data
run_range_processing(parts, docs) ==
    LET frames == process_range(docs)
    IN  IF frames.expenses_df = <<>> /\ frames.expense_items_df = <<>>
        THEN parts
        ELSE save_to_csv_by_date(parts, frames.expenses_df,
                                 frames.expense_items_df)

-----------------------------------------------------------------------------
(* SpecSave: repeated processing runs over extracted files                 *)

MaxRuns     == 2    \* processing runs with freshly extracted files
MaxExpenses == 2    \* expense IDs IdBase .. IdBase + MaxExpenses - 1
IdBase      == 9
MaxItems    == 1    \* items per expense

ExpenseIds == IdBase..(IdBase + MaxExpenses - 1)

SaveDates == {D1, D2}

\* receipt numbers as the API holds them: digits with leading zeros, free
\* text, or none
Receipts == {<<"0", "0", "7">>, <<"A", "1">>, None}

AllNamed == [rel \in ToOneRels |-> "named"]

ItemId(n, k) == FormatInt(10 * n + k)

ItemEntity(n, k) ==
    [ type          |-> "ExpenseItem",
      id            |-> ItemId(n, k),
      attributes    |-> [canceled |-> False, detail |-> None,
                         price |-> <<"1", "0">>, quantity |-> <<"1">>],
      relationships |-> <<>> ]

\* the document GET /expenses/n answers with
SaveDoc(n, date, receipt, nItems) ==
    ShapedDoc(FormatInt(n), Attributes(date, receipt, None), AllNamed,
              [k \in 1..nItems |-> Ref("ExpenseItem", ItemId(n, k))],
              [k \in 1..nItems |-> ItemEntity(n, k)])

\* what the API can hold for an expense: its date (an expense can also come
\* without one), its receipt number and the number of its items
DocChoices ==
    (SaveDates \cup {None}) \X Receipts \X (0..MaxItems)

\* the files a run can find in its range of IDs
Extractions(ids) ==
    UNION { {[n \in S |-> SaveDoc(n, c[n][1], c[n][2], c[n][3])] :
                c \in [S -> DocChoices]} :
            S \in SUBSET ids }

InitSave ==
    /\ partitions = [d \in SaveDates |-> NoPartition]
    /\ prevPartitions = [d \in SaveDates |-> NoPartition]
    /\ lastDocs = <<>>
    /\ lastOp = "none"
    /\ runs = 0
    /\ IdleFlatten
    /\ IdleRange
    /\ IdleRest

\* python run_processing.py range <start> <end> over newly extracted files
RunRangeProcessing ==
    /\ runs < MaxRuns
    /\ \E docs \in Extractions(ExpenseIds) :
          /\ partitions' = run_range_processing(partitions, docs)
          /\ lastDocs' = docs
    /\ prevPartitions' = partitions
    /\ lastOp' = "run"
    /\ runs' = runs + 1
    /\ UNCHANGED <<flattenVars, rangeVars, restVars>>

\* the same command again over the same files
RerunRangeProcessing ==
    /\ lastOp = "run"
    /\ partitions' = run_range_processing(partitions, lastDocs)
    /\ prevPartitions' = partitions
    /\ lastOp' = "rerun"
    /\ UNCHANGED <<lastDocs, runs, flattenVars, rangeVars, restVars>>

NextSave == RunRangeProcessing \/ RerunRangeProcessing

SpecSave == InitSave /\ [][NextSave]_vars


-----------------------------------------------------------------------------
(* Properties of SpecSave                                                  *)

ExpenseRows(parts, d) == parts[d].fact_expenses.rows
ItemRows(parts, d)    == parts[d].fact_expense_orders.rows

\* the expense_key values stored in a partition
StoredKeys(parts, d) ==
    {KeyOf(r.expense_key) : r \in Range(ExpenseRows(parts, d))}

\* the rows of a partition with a given expense_key
RowsOfKey(rows, n) == {i \in 1..Len(rows) : KeyOf(rows[i].expense_key) = n}

\* the date and receipt number of the expense a file of the last run holds
DocDate(n)    == lastDocs[n].data.attributes.date
DocReceipt(n) == lastDocs[n].data.attributes.receiptNumber

Ran == lastOp \in {"run", "rerun"}

\* C1: in every partition, fact_expenses.csv holds at most one row per
\* expense_key, whatever overlapping batches the runs brought.
C1_OneRowPerExpenseKey ==
    \A d \in SaveDates :
        \A n \in StoredKeys(partitions, d) :
            Cardinality(RowsOfKey(ExpenseRows(partitions, d), n)) = 1

\* a run brought an expense that its partition already held
C1_Witness ==
    /\ lastOp = "run"
    /\ \E n \in DOMAIN lastDocs :
          /\ DocDate(n) \in SaveDates
          /\ n \in StoredKeys(prevPartitions, DocDate(n))
          /\ n \in StoredKeys(partitions, DocDate(n))

\* C2: an expense of the run whose key the partition of its date already
\* held is stored once, with the data of the run (the new row wins).
C2_NewRowReplacesOld ==
    Ran =>
        \A n \in DOMAIN lastDocs :
            (DocDate(n) \in SaveDates
             /\ n \in StoredKeys(prevPartitions, DocDate(n))) =>
                LET rows == ExpenseRows(partitions, DocDate(n))
                IN  /\ Cardinality(RowsOfKey(rows, n)) = 1
                    /\ \A i \in RowsOfKey(rows, n) :
                          /\ rows[i].receipt_number = StringCell(DocReceipt(n))
                          /\ rows[i].expense_date_key = date_to_int(DocDate(n))

\* a stored expense was replaced by a row with another receipt number
C2_Witness ==
    /\ lastOp = "run"
    /\ \E n \in DOMAIN lastDocs :
          /\ DocDate(n) \in SaveDates
          /\ \E i \in RowsOfKey(ExpenseRows(prevPartitions, DocDate(n)), n) :
                ExpenseRows(prevPartitions, DocDate(n))[i].receipt_number
                    = <<"A", "1">>
          /\ \E i \in RowsOfKey(ExpenseRows(partitions, DocDate(n)), n) :
                ExpenseRows(partitions, DocDate(n))[i].receipt_number
                    = <<"0", "0", "7">>

\* C3 as stated: after a run, every expense row a partition held whose
\* expense_key is not in the new batch is still there, unchanged.
C3_OtherRowsUnchanged ==
    Ran =>
        \A d \in SaveDates :
            \A r \in Range(ExpenseRows(prevPartitions, d)) :
                KeyOf(r.expense_key) \notin DOMAIN lastDocs =>
                    r \in Range(ExpenseRows(partitions, d))

\* C4: every expense row of partition D carries the date D and every item
\* row of D belongs to an expense row of D; a run adds to D no expense of
\* its batch that has another date, and no item of such an expense.
C4_PartitionHoldsOnlyItsDate ==
    \A d \in SaveDates :
        /\ \A r \in Range(ExpenseRows(partitions, d)) :
              r.expense_date_key = date_to_int(d)
        /\ \A it \in Range(ItemRows(partitions, d)) :
              KeyOf(it.expense_key) \in StoredKeys(partitions, d)
        /\ Ran =>
              \A n \in DOMAIN lastDocs :
                  DocDate(n) # d =>
                      /\ n \in StoredKeys(partitions, d)
                            => n \in StoredKeys(prevPartitions, d)
                      /\ \A it \in Range(ItemRows(partitions, d)) :
                            KeyOf(it.expense_key) = n =>
                                \E old \in Range(ItemRows(prevPartitions, d)) :
                                    old.expense_order_key = it.expense_order_key

\* one run wrote expenses with items into two partitions
C4_Witness ==
    /\ lastOp = "run"
    /\ \A d \in SaveDates :
          /\ ExpenseRows(prevPartitions, d) = <<>>
          /\ ExpenseRows(partitions, d) # <<>>
          /\ ItemRows(partitions, d) # <<>>

\* C5 as stated: the same run again leaves every partition with the same
\* expense rows and item rows.
C5_RerunChangesNothing ==
    lastOp = "rerun" =>
        \A d \in SaveDates :
            /\ Range(ExpenseRows(partitions, d))
                  = Range(ExpenseRows(prevPartitions, d))
            /\ Range(ItemRows(partitions, d))
                  = Range(ItemRows(prevPartitions, d))

\* C10 as stated: every stored expense row has, next to each relationship
\* key column, a column with the name of the related entity.
C10_NameColumnsKept ==
    \A d \in SaveDates :
        \A r \in Range(ExpenseRows(partitions, d)) :
            /\ "cash_register_key" \in DOMAIN r
                  => "cash_register_name" \in DOMAIN r
            /\ "payment_method_key" \in DOMAIN r
                  => "payment_method_name" \in DOMAIN r
            /\ "provider_key" \in DOMAIN r
                  => "provider_name" \in DOMAIN r
            /\ "employee_key" \in DOMAIN r
                  => ("employee_name" \in DOMAIN r \/ "user_name" \in DOMAIN r)

\* the expense_order_key values of the item rows stored for an expense
ItemKeysOf(rows, n) ==
    {KeyOf(r.expense_order_key) :
        r \in {x \in Range(rows) : KeyOf(x.expense_key) = n}}

\* the items the file of the last run holds for an expense
DocItemKeys(n) ==
    {ParseInt(ref.id) :
        ref \in Range(lastDocs[n].data.relationships.expenseItems.data)}

\* C18 as stated: after a run, the item rows stored for an expense that its
\* partition already held are exactly the items of the run, none when the
\* run has no items for it.
C18_ItemRowsReplaced ==
    Ran =>
        \A n \in DOMAIN lastDocs :
            (DocDate(n) \in SaveDates
             /\ n \in StoredKeys(prevPartitions, DocDate(n))) =>
                ItemKeysOf(ItemRows(partitions, DocDate(n)), n)
                    = DocItemKeys(n)

\* the rows are in ascending order of a key column
IsSortedBy(rows, col) ==
    \A i \in 1..(Len(rows) - 1) : KeyOf(rows[i][col]) <= KeyOf(rows[i + 1][col])

\* C19: in every partition the rows of fact_expenses.csv are in ascending
\* expense_key order and the rows of fact_expense_orders.csv in ascending
\* expense_order_key order.
C19_RowsInKeyOrder ==
    \A d \in SaveDates :
        /\ IsSortedBy(ExpenseRows(partitions, d), "expense_key")
        /\ IsSortedBy(ItemRows(partitions, d), "expense_order_key")

\* a run added an expense with an item to a partition that held only an
\* expense with a greater key and its item
C19_Witness ==
    /\ lastOp = "run"
    /\ \E d \in SaveDates :
          /\ Len(ExpenseRows(prevPartitions, d)) = 1
          /\ Len(ItemRows(prevPartitions, d)) = 1
          /\ Len(ExpenseRows(partitions, d)) = 2
          /\ Len(ItemRows(partitions, d)) = 2
          /\ KeyOf(ExpenseRows(prevPartitions, d)[1].expense_key)
                = KeyOf(ExpenseRows(partitions, d)[2].expense_key)
          /\ KeyOf(ItemRows(prevPartitions, d)[1].expense_order_key)
                = KeyOf(ItemRows(partitions, d)[2].expense_order_key)

\* the date partitions that store a row of an expense_key
PartitionsOfKey(parts, n) == {d \in DOMAIN parts : n \in StoredKeys(parts, d)}

\* C22 as stated: after any sequence of processing runs, an expense_key is
\* stored in at most one date partition.
C22_KeyInOnePartition ==
    \A n \in ExpenseIds : Cardinality(PartitionsOfKey(partitions, n)) <= 1


-----------------------------------------------------------------------------
(* ExpenseExtractor.extract_expenses_range                                 *)
(* An optional int argument is <<>> (None) or <<n>>.                       *)

max_consecutive_404s == 50

MaxStart     == 2    \* start_id in 1..MaxStart
MaxExisting  == 3    \* the API holds expenses only for IDs up to this one
LongEnd      == 52   \* an end_id more than 50 IDs past start_id
MaxBatchSize == 2    \* batch_size in 1..MaxBatchSize

EndIds == {0, 1, MaxExisting + 1, LongEnd}

\* what GET /expenses/<id> answers for an existing expense
ApiExpense(id) == [data |-> [type |-> "Expense", id |-> FormatInt(id)]]

\* save_individual_expense as it would be with the file named after the
\* next ID
save_individual_expense_next(fs, answer, expense_id) ==
    [n \in DOMAIN fs \cup {expense_id + 1} |->
        IF n = expense_id + 1 THEN answer ELSE fs[n]]

\* save_individual_expense: expense_<expense_id>.json holds the answer
save_individual_expense(fs, answer, expense_id) ==
    [n \in DOMAIN fs \cup {expense_id} |->
        IF n = expense_id THEN answer ELSE fs[n]]

\* save_batch(expenses, batch_name): a new batch file
save_batch(bs, batch_expenses, first, last) ==
    Append(bs, [first |-> first, last |-> last, expenses |-> batch_expenses])

\* expenses[-k:]
LastK(seq, k) == SubSeq(seq, Len(seq) - k + 1, Len(seq))

\* "if end_id and current_id > end_id"
PastEnd == end_id # <<>> /\ end_id[1] # 0 /\ current_id > end_id[1]

\* "if consecutive_404s >= max_consecutive_404s"
TooMany404s == consecutive_404s >= max_consecutive_404s

InitRange ==
    /\ start_id \in 1..MaxStart
    /\ end_id \in {<<>>} \cup {<<e>> : e \in EndIds}
    /\ batch_size \in 1..MaxBatchSize
    /\ save_individual \in BOOLEAN
    /\ current_id = start_id
    /\ consecutive_404s = 0
    /\ expenses = <<>>
    /\ individual_files = <<>>
    /\ files = <<>>
    /\ batches = <<>>
    /\ requested = {}
    /\ answered = {}
    /\ errors_counted = 0
    /\ pc = "loop"
    /\ result = <<>>
    /\ IdleFlatten
    /\ IdleSave
    /\ IdleRest

\* Finish as it would be if current_id itself were returned
FinishReturnsCurrentId ==
    /\ batches' =
          IF ~save_individual /\ Len(expenses) % batch_size > 0
          THEN Append(batches,
                      [first    |-> current_id - (Len(expenses) % batch_size),
                       last     |-> current_id - 1,
                       expenses |-> SubSeq(expenses,
                                           Len(expenses)
                                             - (Len(expenses) % batch_size) + 1,
                                           Len(expenses))])
          ELSE batches
    /\ result' = <<[expenses |-> expenses, last_id |-> current_id]>>
    /\ pc' = "done"
    /\ UNCHANGED <<start_id, end_id, batch_size, save_individual, current_id,
                   consecutive_404s, expenses, individual_files, files,
                   requested, answered, errors_counted, flattenVars,
                   saveVars, restVars>>

\* the code after the loop: the last partial batch, and the return value
Finish ==
    /\ batches' =
          IF ~save_individual /\ Len(expenses) % batch_size > 0
          THEN save_batch(batches,
                          LastK(expenses, Len(expenses) % batch_size),
                          current_id - (Len(expenses) % batch_size),
                          current_id - 1)
          ELSE batches
    /\ result' = <<[expenses |-> expenses, last_id |-> current_id - 1]>>
    /\ pc' = "done"
    /\ UNCHANGED <<start_id, end_id, batch_size, save_individual, current_id,
                   consecutive_404s, expenses, individual_files, files,
                   requested, answered, errors_counted, flattenVars,
                   saveVars, restVars>>

\* break: the final ID was passed
StopAtEnd ==
    /\ pc = "loop"
    /\ PastEnd
    /\ Finish

\* break: too many consecutive misses
StopAt404s ==
    /\ pc = "loop"
    /\ ~PastEnd
    /\ TooMany404s
    /\ Finish

\* get_expense_by_id(current_id) answers with the expense
FetchData ==
    /\ pc = "loop"
    /\ ~PastEnd /\ ~TooMany404s
    /\ current_id <= MaxExisting
    /\ LET answer    == ApiExpense(current_id)
           extracted == Append(expenses, answer)
       IN  /\ expenses' = extracted
           /\ consecutive_404s' = 0
           /\ files' = IF save_individual
                       THEN save_individual_expense(files, answer,
                                                    current_id)
                       ELSE files
           /\ individual_files' = IF save_individual
                                  THEN Append(individual_files, current_id)
                                  ELSE individual_files
           /\ batches' =
                 IF ~save_individual /\ Len(extracted) % batch_size = 0
                 THEN save_batch(batches, LastK(extracted, batch_size),
                                 current_id - batch_size + 1, current_id)
                 ELSE batches
    /\ current_id' = current_id + 1
    /\ requested' = requested \cup {current_id}
    /\ answered' = answered \cup {current_id}
    /\ errors_counted' = 0
    /\ UNCHANGED <<start_id, end_id, batch_size, save_individual, pc, result,
                   flattenVars, saveVars, restVars>>

\* get_expense_by_id(current_id) returns None: the API answered 404
Fetch404 ==
    /\ pc = "loop"
    /\ ~PastEnd /\ ~TooMany404s
    /\ consecutive_404s' = consecutive_404s + 1
    /\ current_id' = current_id + 1
    /\ requested' = requested \cup {current_id}
    /\ UNCHANGED <<start_id, end_id, batch_size, save_individual, expenses,
                   individual_files, files, batches, answered, pc, result,
                   errors_counted, flattenVars, saveVars, restVars>>

\* get_expense_by_id(current_id) raises: the except branch of the loop
FetchError ==
    /\ pc = "loop"
    /\ ~PastEnd /\ ~TooMany404s
    /\ current_id' = current_id + 1
    /\ consecutive_404s' = consecutive_404s + 1
    /\ requested' = requested \cup {current_id}
    /\ errors_counted' = errors_counted + 1
    /\ UNCHANGED <<start_id, end_id, batch_size, save_individual, expenses,
                   individual_files, files, batches, answered, pc, result,
                   flattenVars, saveVars, restVars>>

NextRange == StopAtEnd \/ StopAt404s \/ FetchData \/ Fetch404 \/ FetchError

SpecRange == InitRange /\ [][NextRange]_vars


-----------------------------------------------------------------------------
(* Properties of SpecRange                                                 *)

Done == pc = "done"

\* the answers of a set of IDs, in ascending ID order
AnswersOf(ids) == [i \in 1..Len(Ascending(ids)) |-> ApiExpense(Ascending(ids)[i])]

\* C6 as stated: with a (positive) end_id, the run has requested every ID
\* from start_id through end_id, and none above it, when it returns.
C6_WholeRangeRequested ==
    (Done /\ end_id # <<>> /\ end_id[1] > 0) =>
        requested = start_id..end_id[1]

\* C7 as stated: the list returned holds the answers of the IDs that
\* returned data, in ascending ID order, each once, and the second
\* component is the greatest ID a request was attempted for.
C7_ReturnsAnswersAndLastRequestedId ==
    Done =>
        /\ result[1].expenses = AnswersOf(answered)
        /\ result[1].last_id \in requested
        /\ \A n \in requested : n <= result[1].last_id

\* C7 amended: as above, and the second component is start_id - 1 when no
\* request was attempted at all.
C7_ReturnsAnswersAndLastId ==
    Done =>
        /\ result[1].expenses = AnswersOf(answered)
        /\ IF requested = {}
           THEN result[1].last_id = start_id - 1
           ELSE /\ result[1].last_id \in requested
                /\ \A n \in requested : n <= result[1].last_id

\* a finished run that got two expenses around a miss
C7_Witness ==
    /\ Done
    /\ Len(result[1].expenses) = 2
    /\ \E n \in requested \ answered : \E a, b \in answered : a < n /\ n < b
    /\ result[1].last_id = SetMax(requested)

C15_RequestsBoundedByRange ==
    end_id # <<>> =>
        Cardinality(requested) <=
            IF end_id[1] >= start_id THEN end_id[1] - start_id + 1 ELSE 0

\* C17 as stated: the counter never exceeds 50, and a scan that stops
\* before passing its end_id has just seen 50 consecutive 404 responses:
\* nothing but a 404 was counted since the last successful fetch.
C17_StopsOnlyAfter50NotFound ==
    /\ consecutive_404s <= max_consecutive_404s
    /\ (Done /\ ~PastEnd) =>
          /\ consecutive_404s = max_consecutive_404s
          /\ errors_counted = 0


-----------------------------------------------------------------------------
(* main.py (ExpenseOrchestrator and its command line) and the range        *)
(* command of run_processing.py.  orch is the state of one run of a        *)
(* command: its arguments, the position reached (pc), the log of           *)
(* extracted IDs, and one record per batch that was started.  The          *)
(* extractor's extract_range, get_extracted_ids and the log they share,    *)
(* and the process_range main.py expects (one returning a summary), are    *)
(* not in the sources: a call of them either returns or raises.            *)

MaxArg        == 2   \* CLI start_id and end_id in 0..MaxArg
MaxBatchCount == 3   \* run_continuous is followed for this many batches
MaxLogged     == 1   \* the log of extracted IDs starts as 1..n, n <= MaxLogged

\* the validation of main.py: "IDs deben ser positivos y start_id <= end_id"
InvalidRange(s, e) == s <= 0 \/ e <= 0 \/ s > e

\* ExpenseOrchestrator.get_next_ids_to_process
get_next_ids_to_process(extracted_ids, size) ==
    LET first == IF extracted_ids = {} THEN 1 ELSE SetMax(extracted_ids) + 1
    IN  [start_id |-> first, end_id |-> first + size - 1]

\* what extractor.extract_range(start_id, end_id) can do: raise, or return
\* the expenses it extracted with their count, having logged their IDs
ExtractRangeOutcomes(s, e) ==
    {[raised |-> TRUE, ids |-> {}]}
    \cup {[raised |-> FALSE, ids |-> S] : S \in SUBSET (s..e)}

\* ExpenseOrchestrator.extract_batch: (success, count)
extract_batch(outcome) ==
    IF outcome.raised THEN [success |-> FALSE, count |-> 0]
    ELSE [success |-> TRUE, count |-> Cardinality(outcome.ids)]

\* ExpenseOrchestrator.process_batch: True unless process_range raised
process_batch(raised) == ~raised

\* a batch that was started and the steps it went through
NewBatch(s, e) ==
    [start_id |-> s, end_id |-> e, extracted |-> <<>>, processed |-> <<>>,
     returned |-> <<>>]

\* sys.exit(status), or the end of main
Exit(o, status) == [o EXCEPT !.pc = "exit", !.exit_status = <<status>>]

\* the call of run_full_pipeline / extract_batch / process_batch for a range
Start(o, s, e, step) ==
    [o EXCEPT !.pc = step, !.batches = Append(@, NewBatch(s, e))]

\* run_auto_batch, up to the call of extract_batch
StartAuto(o) ==
    LET next == get_next_ids_to_process(o.extracted_ids, o.batch_size)
    IN  Start(o, next.start_id, next.end_id, "extract")

\* main() of main.py, up to the first step of the command
main(o) ==
    CASE o.command \in {"range", "extract", "process"} ->
             IF InvalidRange(o.start_id, o.end_id) THEN Exit(o, 1)
             ELSE Start(o, o.start_id, o.end_id,
                        IF o.command = "process" THEN "process" ELSE "extract")
      [] o.command = "auto" -> StartAuto(o)
      [] o.command = "continuous" ->
             StartAuto([o EXCEPT !.batch_count = 1])

\* main() of run_processing.py for the range command, up to the call of
\* run_range_processing
run_processing_main(o) ==
    IF o.start_id > o.end_id THEN Exit(o, 0)
    ELSE Start(o, o.start_id, o.end_id, "run_range_processing")

\* run_continuous as it would be if the limit were tested with >
batch_limit_reached_late(max_batches, batch_count) ==
    max_batches > 0 /\ batch_count > max_batches

\* run_continuous: "Verificar límite de lotes"
batch_limit_reached(max_batches, batch_count) ==
    max_batches > 0 /\ batch_count >= max_batches

\* run_full_pipeline returns value: what its caller does with it
Return(o, value) ==
    LET done == [o EXCEPT !.batches[Len(o.batches)].returned = <<value>>]
    IN  CASE o.command \in {"range", "auto"} ->
                 Exit(done, IF value THEN 0 ELSE 1)
          [] o.command = "continuous" ->
                 IF ~value THEN Exit(done, 0)
                 ELSE IF batch_limit_reached(o.max_batches, o.batch_count)
                      THEN Exit(done, 0)
                 ELSE [done EXCEPT !.pc = "loop"]

\* run_full_pipeline as it would be if it went on after a failed extraction
after_extract_unchecked(o, got) ==
    IF got.count = 0 THEN Return(o, TRUE)
    ELSE [o EXCEPT !.pc = "process"]

\* run_full_pipeline after "Paso 1: Extracción"
after_extract(o, got) ==
    IF ~got.success THEN Return(o, FALSE)
    ELSE IF got.count = 0 THEN Return(o, TRUE)
    ELSE [o EXCEPT !.pc = "process"]

OrchArgs ==
    {[program |-> "main", command |-> c, start_id |-> s, end_id |-> e,
      batch_size |-> 0, max_batches |-> 0] :
        c \in {"range", "extract", "process"},
        s \in 0..MaxArg, e \in 0..MaxArg}
    \cup {[program |-> "run_processing", command |-> "range", start_id |-> s,
           end_id |-> e, batch_size |-> 0, max_batches |-> 0] :
             s \in 0..MaxArg, e \in 0..MaxArg}
    \cup {[program |-> "main", command |-> "auto", start_id |-> 0,
           end_id |-> 0, batch_size |-> b, max_batches |-> 0] :
             b \in 1..MaxBatchSize}
    \cup {[program |-> "main", command |-> "continuous", start_id |-> 0,
           end_id |-> 0, batch_size |-> b, max_batches |-> m] :
             b \in 1..MaxBatchSize, m \in 0..(MaxBatchCount - 1)}

InitOrch ==
    /\ \E a \in OrchArgs, n \in 0..MaxLogged :
          orch = [program |-> a.program, command |-> a.command,
                  start_id |-> a.start_id, end_id |-> a.end_id,
                  batch_size |-> a.batch_size, max_batches |-> a.max_batches,
                  pc |-> "main", batch_count |-> 0, extracted_ids |-> 1..n,
                  batches |-> <<>>, exit_status |-> <<>>]
    /\ IdleFlatten
    /\ IdleSave
    /\ IdleRange
    /\ IdleMaint
    /\ IdleRaw

\* the command line is parsed and the command dispatched
Main ==
    /\ orch # <<>>
    /\ orch.pc = "main"
    /\ orch' = IF orch.program = "main" THEN main(orch)
               ELSE run_processing_main(orch)
    /\ UNCHANGED <<flattenVars, saveVars, rangeVars, maintVars, rawVars>>

\* extract_batch(start_id, end_id), and what follows it in the caller
ExtractBatch ==
    /\ orch # <<>>
    /\ orch.pc = "extract"
    /\ LET b == orch.batches[Len(orch.batches)]
       IN  \E outcome \in ExtractRangeOutcomes(b.start_id, b.end_id) :
              LET got  == extract_batch(outcome)
                  o    == [orch EXCEPT
                             !.batches[Len(orch.batches)].extracted = <<got>>,
                             !.extracted_ids = @ \cup outcome.ids]
              IN  orch' = IF orch.command = "extract"
                          THEN Exit(o, IF got.success THEN 0 ELSE 1)
                          ELSE after_extract(o, got)
    /\ UNCHANGED <<flattenVars, saveVars, rangeVars, maintVars, rawVars>>

\* process_batch(start_id, end_id), and what follows it in the caller
ProcessBatch ==
    /\ orch # <<>>
    /\ orch.pc = "process"
    /\ \E raised \in BOOLEAN :
          LET success == process_batch(raised)
              o == [orch EXCEPT
                      !.batches[Len(orch.batches)].processed = <<success>>]
          IN  orch' = IF orch.command = "process"
                      THEN Exit(o, IF success THEN 0 ELSE 1)
                      ELSE Return(o, success)
    /\ UNCHANGED <<flattenVars, saveVars, rangeVars, maintVars, rawVars>>

\* run_continuous: the next turn of "while True"
RunContinuousNext ==
    /\ orch # <<>>
    /\ orch.pc = "loop"
    /\ orch.batch_count < MaxBatchCount
    /\ orch' = StartAuto([orch EXCEPT !.batch_count = @ + 1])
    /\ UNCHANGED <<flattenVars, saveVars, rangeVars, maintVars, rawVars>>

\* run_processing.py: processor.run_range_processing returns a summary,
\* returns no summary (no data in the range) or raises
RunProcessingRange ==
    /\ orch # <<>>
    /\ orch.pc = "run_range_processing"
    /\ \E outcome \in {"summary", "no data", "raised"} :
          orch' = Exit([orch EXCEPT
                          !.batches[Len(orch.batches)].processed =
                              <<outcome = "summary">>],
                       IF outcome = "raised" THEN 1 ELSE 0)
    /\ UNCHANGED <<flattenVars, saveVars, rangeVars, maintVars, rawVars>>

NextOrch ==
    Main \/ ExtractBatch \/ ProcessBatch \/ RunContinuousNext
    \/ RunProcessingRange

SpecOrch == InitOrch /\ [][NextOrch]_vars


-----------------------------------------------------------------------------
(* Properties of SpecOrch                                                  *)

\* the commands that go through run_full_pipeline
InPipeline ==
    /\ orch # <<>>
    /\ orch.program = "main"
    /\ orch.command \in {"range", "auto", "continuous"}

\* C11: in run_full_pipeline, processing of a range starts only after the
\* extraction of that range returned success with a count above zero; a
\* failed extraction makes the pipeline return False without processing, a
\* count of zero makes it return True without processing, and after
\* processing it returns what processing returned.
C11_ExtractionThenProcessing ==
    InPipeline =>
        \A i \in 1..Len(orch.batches) :
            LET b == orch.batches[i]
            IN  /\ b.processed # <<>> =>
                      /\ b.extracted # <<>>
                      /\ b.extracted[1].success
                      /\ b.extracted[1].count > 0
                /\ b.returned # <<>> =>
                      /\ b.extracted # <<>>
                      /\ IF ~b.extracted[1].success
                         THEN b.returned = <<FALSE>> /\ b.processed = <<>>
                         ELSE IF b.extracted[1].count = 0
                         THEN b.returned = <<TRUE>> /\ b.processed = <<>>
                         ELSE b.processed # <<>> /\ b.returned = b.processed

\* a continuous run whose first batch was extracted and processed and whose
\* second batch failed at extraction
C11_Witness ==
    /\ InPipeline
    /\ Len(orch.batches) = 2
    /\ orch.batches[1].processed = <<TRUE>>
    /\ orch.batches[1].returned = <<TRUE>>
    /\ orch.batches[2].extracted # <<>>
    /\ ~orch.batches[2].extracted[1].success
    /\ orch.batches[2].returned = <<FALSE>>

\* the step a range, extract or process command ran reported success
StepSucceeded ==
    /\ orch.batches # <<>>
    /\ LET b == orch.batches[1]
       IN  CASE orch.program = "run_processing" -> b.processed = <<TRUE>>
             [] orch.command = "range"   -> b.returned = <<TRUE>>
             [] orch.command = "extract" ->
                    b.extracted # <<>> /\ b.extracted[1].success
             [] orch.command = "process" -> b.processed = <<TRUE>>

\* C12 as stated: a range, extract or process command with start_id <= 0,
\* end_id <= 0 or start_id > end_id exits with status 1 and runs no step;
\* otherwise it exits with status 0 exactly when its step reported success.
C12_InvalidRangeExitsWithError ==
    (orch # <<>> /\ orch.pc = "exit"
     /\ orch.command \in {"range", "extract", "process"}) =>
        IF InvalidRange(orch.start_id, orch.end_id)
        THEN orch.exit_status = <<1>> /\ orch.batches = <<>>
        ELSE (orch.exit_status = <<0>>) <=> StepSucceeded

\* C14: run_continuous starts at most max_batches batches when max_batches
\* is above zero, starts no batch after one whose pipeline returned False,
\* and stops for no other reason: with max_batches = 0 it goes on after
\* every successful batch.
C14_ContinuousBatchLimit ==
    (orch # <<>> /\ orch.command = "continuous") =>
        /\ orch.max_batches > 0 => Len(orch.batches) <= orch.max_batches
        /\ \A i \in 1..(Len(orch.batches) - 1) :
              orch.batches[i].returned = <<TRUE>>
        /\ orch.pc = "exit" =>
              \/ orch.batches[Len(orch.batches)].returned = <<FALSE>>
              \/ /\ orch.max_batches > 0
                 /\ Len(orch.batches) = orch.max_batches

\* a continuous run with max_batches = 2 that ended after two successful
\* batches
C14_Witness ==
    /\ orch # <<>>
    /\ orch.command = "continuous"
    /\ orch.max_batches = 2
    /\ orch.pc = "exit"
    /\ Len(orch.batches) = 2
    /\ \A i \in 1..2 : orch.batches[i].returned = <<TRUE>>

\* an automatic command whose newest batch has not been extracted yet
AutoBatchStarted ==
    /\ orch # <<>>
    /\ orch.command \in {"auto", "continuous"}
    /\ orch.pc = "extract"

\* C24 as stated: the range of a batch that starts is (1, batch_size) when
\* the log of extracted IDs is empty and (max + 1, max + batch_size)
\* otherwise, and every batch of run_continuous after the first starts at
\* an ID greater than the end ID of the batch before it.
C24_AutoBatchesAdvance ==
    (orch # <<>> /\ orch.command \in {"auto", "continuous"}) =>
        /\ AutoBatchStarted =>
              LET range == orch.batches[Len(orch.batches)]
                  last  == IF orch.extracted_ids = {} THEN 0
                           ELSE SetMax(orch.extracted_ids)
              IN  /\ range.start_id = last + 1
                  /\ range.end_id = last + orch.batch_size
        /\ \A i \in 2..Len(orch.batches) :
              orch.batches[i].start_id > orch.batches[i - 1].end_id

-----------------------------------------------------------------------------
(* SpecMaint: the daily maintenance run.  run_maintenance_extraction asks  *)
(* GET /expenses for the recent pages and saves them, then                 *)
(* run_maintenance_processing processes the files of extraction_data/.     *)

MaxApiPages == 3    \* pages the API holds for the date filter

\* ---- the files of extraction_data/

\* f"expense_{expense_id}.json"
ExpenseFileName(expense_id) ==
    <<"e", "x", "p", "e", "n", "s", "e", "_">>
    \o FormatInt(expense_id) \o <<".", "j", "s", "o", "n">>

\* f"recent_expenses_{start}_{end}_{timestamp}.json" of a run on 2024-01-08
\* with days_back = 7
RecentFileName ==
    <<"r", "e", "c", "e", "n", "t", "_", "e", "x", "p", "e", "n", "s",
      "e", "s", "_", "2", "0", "2", "4", "0", "1", "0", "1", "_", "2",
      "0", "2", "4", "0", "1", "0", "8", "_", "2", "0", "2", "4", "0",
      "1", "0", "8", "_", "1", "2", "0", "0", "0", "0", ".", "j", "s",
      "o", "n">>

\* f"maintenance_extraction_summary_{timestamp}.json"
SummaryFileName ==
    <<"m", "a", "i", "n", "t", "e", "n", "a", "n", "c", "e", "_", "e",
      "x", "t", "r", "a", "c", "t", "i", "o", "n", "_", "s", "u", "m",
      "m", "a", "r", "y", "_", "2", "0", "2", "4", "0", "1", "0", "8",
      "_", "1", "2", "0", "0", "0", "1", ".", "j", "s", "o", "n">>

\* the pattern run_maintenance_processing passes: "expense_*.json"
ExpensePattern ==
    [ prefix |-> <<"e", "x", "p", "e", "n", "s", "e", "_">>,
      suffix |-> <<".", "j", "s", "o", "n">> ]

\* fnmatch of a file name against prefix*suffix
fnmatch(name, pattern) ==
    /\ Len(name) >= Len(pattern.prefix) + Len(pattern.suffix)
    /\ SubSeq(name, 1, Len(pattern.prefix)) = pattern.prefix
    /\ SubSeq(name, Len(name) - Len(pattern.suffix) + 1, Len(name))
          = pattern.suffix

\* glob.glob(os.path.join(EXTRACTION_DATA_DIR, file_pattern))
glob(dir, pattern) == {name \in DOMAIN dir : fnmatch(name, pattern)}

\* the characters of the file names in code point order
Alphabet ==
    <<".", "0", "1", "2", "3", "4", "5", "6", "7", "8", "9", "_", "a",
      "b", "c", "d", "e", "f", "g", "h", "i", "j", "k", "l", "m", "n",
      "o", "p", "q", "r", "s", "t", "u", "v", "w", "x", "y", "z">>

ord(c) == CHOOSE i \in 1..Len(Alphabet) : Alphabet[i] = c

\* a < b for two str
RECURSIVE StrLess(_, _)
StrLess(a, b) ==
    IF b = <<>> THEN FALSE
    ELSE IF a = <<>> THEN TRUE
    ELSE IF Head(a) = Head(b) THEN StrLess(Tail(a), Tail(b))
    ELSE ord(Head(a)) < ord(Head(b))

\* file_paths.sort()
RECURSIVE SortedNames(_)
SortedNames(names) ==
    IF names = {} THEN <<>>
    ELSE LET first == CHOOSE a \in names :
                          \A b \in names \ {a} : StrLess(a, b)
         IN  <<first>> \o SortedNames(names \ {first})

\* What a file holds, by kind:
\*   expense          the JSON:API document doc of one expense
\*   not json         text that json.load rejects
\*   empty object     {}
\*   null attributes  {"data": {"id": "9", "attributes": null}}
\*   null data        {"data": null}
\*   recent           {"data": [...], "included": [...]} of a recent page run
\*   summary          the summary of a maintenance extraction
FileOf(kind, doc) == [kind |-> kind, doc |-> doc]

\* read_expense_json: <<>> is None
read_expense_json(content) ==
    IF content.kind = "not json" THEN <<>> ELSE <<content>>

\* bool(expense_data) of what read_expense_json returned
TruthyJson(read) == read # <<>> /\ read[1].kind # "empty object"

\* process_expense_data with its try/except.  With data null, main_data.get
\* raises AttributeError and so does expense_data.get('data', {}).get in
\* the handler, which nothing catches; with attributes null,
\* attributes.get raises and the handler returns (None, []).
process_expense_data_try(content) ==
    CASE content.kind = "null data" ->
             [raised |-> TRUE, expense_row |-> <<>>,
              expense_items_rows |-> <<>>]
      [] content.kind = "null attributes" ->
             [raised |-> FALSE, expense_row |-> <<>>,
              expense_items_rows |-> <<>>]
      [] OTHER ->
             LET flatRows == process_expense_data(content.doc)
             IN  [raised |-> FALSE, expense_row |-> <<flatRows.expense_row>>,
                  expense_items_rows |-> flatRows.expense_items_rows]

\* the loop of process_expense_files over the sorted paths
RECURSIVE ProcessPaths(_, _, _)
ProcessPaths(dir, file_paths, acc) ==
    IF file_paths = <<>> \/ acc.raised THEN acc
    ELSE LET json_data == read_expense_json(dir[Head(file_paths)])
             rest == Tail(file_paths)
         IN  IF ~TruthyJson(json_data)
             THEN ProcessPaths(dir, rest,
                      [acc EXCEPT !.error_count = @ + 1])
             ELSE LET got == process_expense_data_try(json_data[1])
                  IN  IF got.raised
                      THEN [acc EXCEPT !.raised = TRUE]
                      ELSE IF got.expense_row = <<>>
                      THEN ProcessPaths(dir, rest,
                               [acc EXCEPT !.error_count = @ + 1])
                      ELSE ProcessPaths(dir, rest,
                               [acc EXCEPT
                                  !.expenses_df = @ \o got.expense_row,
                                  !.expense_items_df =
                                      @ \o got.expense_items_rows,
                                  !.processed_count = @ + 1])

process_expense_files(dir, file_pattern) ==
    ProcessPaths(dir, SortedNames(glob(dir, file_pattern)),
                 [raised |-> FALSE, expenses_df |-> <<>>,
                  expense_items_df |-> <<>>, processed_count |-> 0,
                  error_count |-> 0])

\* run_maintenance_processing: the frames it returns (none when it raised or
\* found no data) and the processed_data directory after it
run_maintenance_processing(parts, dir) ==
    LET frames == process_expense_files(dir, ExpensePattern)
    IN  IF frames.raised
        THEN [raised |-> TRUE, returned |-> <<>>, partitions |-> parts]
        ELSE IF frames.expenses_df = <<>> /\ frames.expense_items_df = <<>>
        THEN [raised |-> FALSE, returned |-> <<>>, partitions |-> parts]
        ELSE [raised |-> FALSE, returned |-> <<frames>>,
              partitions |-> save_to_csv_by_date(parts, frames.expenses_df,
                                                 frames.expense_items_df)]

\* ---- GET /expenses with the date filter

\* a page that holds expense n: its resource, the side-table of the
\* entities it refers to, and the link to the next page
PageOf(n, date, hasNext) ==
    LET doc == SaveDoc(n, date, <<"A", "1">>, MaxItems)
    IN  [ data     |-> <<doc.data>>,
          included |-> doc.included,
          links    |-> [next |-> IF hasNext THEN <<"u", "r", "l">> ELSE None] ]

\* the answer to a page number past the last page
EmptyPage == [data |-> <<>>, included |-> <<>>, links |-> <<>>]

\* what the API can hold for the date filter: up to MaxApiPages pages of one
\* expense each; the last page may or may not carry a next link
ApiPages ==
    UNION { {[p \in 1..n |->
                 PageOf(IdBase + p - 1, dates[p], p < n \/ lastNext)] :
                dates \in [1..n -> SaveDates], lastNext \in BOOLEAN} :
            n \in 0..MaxApiPages }

\* response.json() of the request for a page
get_page(pages, number) ==
    IF number \in DOMAIN pages THEN pages[number] ELSE EmptyPage

\* the page limit tested too late
page_limit_reached_late(limit, next_page) ==
    limit > 0 /\ next_page > limit + 1

\* self.max_pages > 0 and page > self.max_pages, after page += 1
page_limit_reached(limit, next_page) ==
    limit > 0 /\ next_page > limit

\* save_extraction_result: the file is written, replacing one of that name
save_extraction_result(dir, filename, content) ==
    (filename :> content) @@ dir

\* the tail of run_maintenance_extraction once the page loop has ended: the
\* recent_expenses file, then the summary
SaveMaintenanceResult(dir, saved_expenses, last_data) ==
    save_extraction_result(
        save_extraction_result(dir, RecentFileName,
            FileOf("recent", [data     |-> saved_expenses,
                              included |-> last_data.included])),
        SummaryFileName, FileOf("summary", <<>>))

\* ---- the specification

\* the kinds of file content that cannot be flattened
BadKinds == {"not json", "empty object", "null attributes", "null data"}

\* expense_<n>.json holding content of a kind
ExpenseFile(n, kind) ==
    ExpenseFileName(n) :>
        FileOf(kind, IF kind = "expense"
                     THEN SaveDoc(n, D1, <<"A", "1">>, MaxItems) ELSE <<>>)

\* extraction_data/ before the maintenance run: files left by earlier
\* extractions, one of them possibly damaged
InitialDirs ==
    { a @@ b :
        a \in {<<>>} \cup {ExpenseFile(IdBase, k) :
                              k \in {"expense"} \cup BadKinds},
        b \in {<<>>} \cup {ExpenseFile(IdBase + 1, "expense")} }

InitMaint ==
    /\ api_pages \in ApiPages
    /\ max_pages \in 0..MaxApiPages
    /\ page = 1
    /\ all_expenses = <<>>
    /\ page_data = <<>>
    /\ pages_requested = <<>>
    /\ extraction_dir \in InitialDirs
    /\ processing = <<>>
    /\ mpc = "extract"
    /\ partitions = [d \in SaveDates |-> NoPartition]
    /\ prevPartitions = [d \in SaveDates |-> NoPartition]
    /\ lastDocs = <<>>
    /\ lastOp = "none"
    /\ runs = 0
    /\ IdleFlatten
    /\ IdleRange
    /\ IdleOrch
    /\ IdleRaw

\* one turn of "while True" in extract_recent_expenses; the turn that breaks
\* also saves the result and returns through run_maintenance_extraction
RequestPage ==
    /\ mpc = "extract"
    /\ LET response  == get_page(api_pages, page)
           collected == all_expenses \o response.data
           goesOn    == /\ response.data # <<>>
                        /\ Truthy(Get(response.links, "next"))
           breaks    == \/ ~goesOn
                        \/ page_limit_reached(max_pages, page + 1)
       IN  /\ pages_requested' = Append(pages_requested, page)
           /\ page_data' = <<response>>
           /\ all_expenses' = collected
           /\ page' = IF goesOn THEN page + 1 ELSE page
           /\ IF breaks
              THEN /\ extraction_dir' =
                          SaveMaintenanceResult(extraction_dir, collected,
                                                response)
                   /\ mpc' = "extracted"
              ELSE /\ mpc' = "extract"
                   /\ UNCHANGED extraction_dir
    /\ UNCHANGED <<api_pages, max_pages, processing, flattenVars, saveVars,
                   rangeVars, orchVars, rawVars>>

\* the request fails: raise_for_status raises, extract_recent_expenses and
\* run_maintenance_extraction log and re-raise, nothing is saved
RequestPageFails ==
    /\ mpc = "extract"
    /\ pages_requested' = Append(pages_requested, page)
    /\ mpc' = "failed"
    /\ UNCHANGED <<api_pages, max_pages, page, all_expenses, page_data,
                   extraction_dir, processing, flattenVars, saveVars,
                   rangeVars, orchVars, rawVars>>

\* python run_processing.py maintenance, after the extraction command
RunMaintenanceProcessing ==
    /\ mpc \in {"extracted", "failed"}
    /\ LET outcome == run_maintenance_processing(partitions, extraction_dir)
       IN  /\ processing' = <<[raised   |-> outcome.raised,
                               returned |-> outcome.returned]>>
           /\ partitions' = outcome.partitions
    /\ prevPartitions' = partitions
    /\ lastOp' = "maintenance"
    /\ runs' = runs + 1
    /\ mpc' = "processed"
    /\ UNCHANGED <<api_pages, max_pages, page, all_expenses, page_data,
                   pages_requested, extraction_dir, lastDocs, flattenVars,
                   rangeVars, orchVars, rawVars>>

NextMaint == RequestPage \/ RequestPageFails \/ RunMaintenanceProcessing

SpecMaint == InitMaint /\ [][NextMaint]_vars

-----------------------------------------------------------------------------
(* Properties of SpecMaint                                                 *)

\* run_maintenance_extraction has returned: its file is in extraction_data/
ExtractionReturned == RecentFileName \in DOMAIN extraction_dir

ApiAnswer(number) == get_page(api_pages, number)

HasNext(number) == Truthy(Get(ApiAnswer(number).links, "next"))

\* C13: the pages are requested in the order 1, 2, 3, ...; with a limit
\* N > 0 at most N pages are requested; no page is requested after an empty
\* page or a page without a next link; and a run that returned stopped at
\* an empty page, at a page without a next link or at page N of a limit
\* N > 0, so that with a limit of 0 only the answers end the loop.
C13_PageLoopStops ==
    LET k == Len(pages_requested)
    IN  /\ \A i \in 1..k : pages_requested[i] = i
        /\ max_pages > 0 => k <= max_pages
        /\ \A i \in 1..(k - 1) : ApiAnswer(i).data # <<>> /\ HasNext(i)
        /\ ExtractionReturned =>
              \/ ApiAnswer(k).data = <<>>
              \/ ~HasNext(k)
              \/ max_pages > 0 /\ k = max_pages

\* a run with a limit of 2 pages that stopped at the limit while the API
\* offered a third page
C13_Witness ==
    /\ ExtractionReturned
    /\ max_pages = 2
    /\ pages_requested = <<1, 2>>
    /\ Len(api_pages) = 3

\* the expenses the maintenance extraction saved
RecentExpenses == extraction_dir[RecentFileName].doc.data

\* C16 as stated: once run_maintenance_processing has run after a
\* maintenance extraction that returned, every expense the extraction saved
\* is stored in the partition of its date.
C16_MaintenanceExpensesProcessed ==
    (mpc = "processed" /\ ExtractionReturned) =>
        \A i \in 1..Len(RecentExpenses) :
            LET e == RecentExpenses[i]
            IN  ParseInt(e.id) \in StoredKeys(partitions, e.attributes.date)

\* the files the pattern matches, and those of them that hold an expense
Matched   == glob(extraction_dir, ExpensePattern)
GoodFiles == {name \in Matched : extraction_dir[name].kind = "expense"}

\* C20 as stated: process_expense_files does not raise; every matched file
\* that holds an expense contributes its expense row and its item rows;
\* every other matched file is counted as an error and contributes no row.
C20_BadFileDoesNotAbort ==
    mpc = "processed" =>
        LET outcome == processing[1]
        IN  /\ ~outcome.raised
            /\ \A name \in GoodFiles :
                  LET rows == process_expense_data(extraction_dir[name].doc)
                  IN  /\ outcome.returned # <<>>
                      /\ rows.expense_row
                            \in Range(outcome.returned[1].expenses_df)
                      /\ Range(rows.expense_items_rows) \subseteq
                            Range(outcome.returned[1].expense_items_df)
            /\ outcome.returned # <<>> =>
                  /\ outcome.returned[1].error_count =
                        Cardinality(Matched \ GoodFiles)
                  /\ Len(outcome.returned[1].expenses_df) =
                        Cardinality(GoodFiles)

\* what the recent_expenses file of the maintenance extraction holds
RecentFile == extraction_dir[RecentFileName].doc

\* a reference resolves in a side-table: an entity of its type and id is there
Resolves(included, ref) ==
    \E x \in Range(included) : x.type = ref.type /\ x.id = ref.id

\* C23 as stated: the included list of the saved recent_expenses file holds
\* the included entities of every fetched page, and every reference of
\* every relationship of every saved expense resolves in it.
C23_RecentFileSelfContained ==
    ExtractionReturned =>
        /\ \A p \in 1..Len(pages_requested) :
              Range(ApiAnswer(p).included) \subseteq Range(RecentFile.included)
        /\ \A i \in 1..Len(RecentFile.data) :
              LET relationships == RecentFile.data[i].relationships
              IN  \A rel \in DOMAIN relationships :
                     \A ref \in Range(relationships[rel].data) :
                        Resolves(RecentFile.included, ref)

-----------------------------------------------------------------------------
(* SpecRaw: FudoRawExtractor.extract_raw_data("/expenses", ...) saves the  *)
(* pages of an endpoint as it receives them, then its metadata.            *)

MaxRecords    == 5   \* records the endpoint holds: 0..MaxRecords
MaxPageSize   == 2   \* page_size in 1..MaxPageSize
MaxPagesLimit == 3   \* max_pages is None or in 0..MaxPagesLimit

\* f"{current_page:04d}"
RECURSIVE ZeroPad(_, _)
ZeroPad(t, width) == IF Len(t) >= width THEN t ELSE ZeroPad(<<"0">> \o t, width)

\* f"{endpoint_name}_page_{current_page:04d}_{timestamp}.json"
PageFileName(current_page) ==
    <<"e", "x", "p", "e", "n", "s", "e", "s", "_", "p", "a", "g", "e",
      "_">>
    \o ZeroPad(FormatInt(current_page), 4)
    \o
      <<"_", "2", "0", "2", "4", "0", "1", "0", "8", "_", "1", "2", "0",
        "0", "0", "0", ".", "j", "s", "o", "n">>

\* f"{endpoint_name}_extraction_metadata_{timestamp}.json"
MetadataFileName ==
    <<"e", "x", "p", "e", "n", "s", "e", "s", "_", "e", "x", "t", "r",
      "a", "c", "t", "i", "o", "n", "_", "m", "e", "t", "a", "d", "a",
      "t", "a", "_", "2", "0", "2", "4", "0", "1", "0", "8", "_", "1",
      "2", "0", "0", "0", "0", ".", "j", "s", "o", "n">>

\* response.json() for a page: the endpoint holds records 1..total and
\* answers page number with the next size of them
RawPage(total, size, number) ==
    LET first == (number - 1) * size + 1
        last  == IF number * size < total THEN number * size ELSE total
    IN  [data |-> [i \in 1..(IF last >= first THEN last - first + 1 ELSE 0) |->
                      first + i - 1]]

\* max_pages is not None and pages_fetched >= max_pages
max_pages_reached(limit, pages_fetched) ==
    limit # <<>> /\ pages_fetched >= limit[1]

\* extraction_summary after "Actualizar resumen"
ExtractionSummary(r) ==
    [ endpoint        |-> "/expenses",
      pages_extracted |-> r.pages_fetched,
      total_records   |-> r.total_records,
      files_created   |-> r.files_created,
      extraction_metadata |->
          [ page_size       |-> r.page_size,
            last_page       |-> r.current_page - 1,
            max_pages_limit |-> r.max_pages ] ]

\* the end of extract_raw_data after the loop: the summary is filled, saved
\* as the metadata file and returned
ReturnSummary(r) ==
    LET extraction_summary == ExtractionSummary(r)
    IN  [r EXCEPT !.summary = <<extraction_summary>>,
                  !.endpoint_dir =
                      (MetadataFileName :> extraction_summary) @@ @,
                  !.pc = "returned"]

\* one turn of the page loop of extract_raw_data
extract_raw_page(r) ==
    LET response_json == RawPage(r.records, r.page_size, r.current_page)
        results   == response_json.data
        saved ==
            [r EXCEPT
               !.endpoint_dir =
                   (PageFileName(r.current_page) :> response_json) @@ @,
               !.files_created = Append(@, PageFileName(r.current_page)),
               !.total_records = @ + Len(results),
               !.pages_fetched = @ + 1,
               !.fetched = Append(@, r.current_page)]
    IN  IF results = <<>> \/ Len(results) < r.page_size
        THEN ReturnSummary(saved)
        ELSE LET next == [saved EXCEPT !.current_page = @ + 1]
             IN  IF max_pages_reached(next.max_pages, next.pages_fetched)
                 THEN ReturnSummary(next)
                 ELSE next

RawArgs ==
    [ records   : 0..MaxRecords,
      page_size : 1..MaxPageSize,
      max_pages : {<<>>} \cup {<<n>> : n \in 0..MaxPagesLimit} ]

InitRaw ==
    /\ \E a \in RawArgs :
          raw = [ records |-> a.records, page_size |-> a.page_size,
                  max_pages |-> a.max_pages, current_page |-> 1,
                  pages_fetched |-> 0, total_records |-> 0,
                  files_created |-> <<>>, endpoint_dir |-> <<>>,
                  fetched |-> <<>>, summary |-> <<>>, pc |-> "loop" ]
    /\ IdleFlatten
    /\ IdleSave
    /\ IdleRange
    /\ IdleOrch
    /\ IdleMaint

\* a page is requested, answered and saved
ExtractRawPage ==
    /\ raw # <<>>
    /\ raw.pc = "loop"
    /\ raw' = extract_raw_page(raw)
    /\ UNCHANGED <<flattenVars, saveVars, rangeVars, orchVars, maintVars>>

\* the request fails: raise_for_status raises and extract_raw_data re-raises
\* without writing the metadata
ExtractRawPageFails ==
    /\ raw # <<>>
    /\ raw.pc = "loop"
    /\ raw' = [raw EXCEPT !.pc = "raised"]
    /\ UNCHANGED <<flattenVars, saveVars, rangeVars, orchVars, maintVars>>

NextRaw == ExtractRawPage \/ ExtractRawPageFails

SpecRaw == InitRaw /\ [][NextRaw]_vars

-----------------------------------------------------------------------------
(* Properties of SpecRaw                                                   *)

\* the page files in the directory of the endpoint
PageFiles == DOMAIN raw.endpoint_dir \ {MetadataFileName}

\* C21 as stated: in the metadata written by extract_raw_data, last_page is
\* the number of the last page fetched and pages_extracted is the number of
\* page files created.
C21_MetadataCountsPages ==
    (raw # <<>> /\ raw.pc = "returned") =>
        LET metadata == raw.endpoint_dir[MetadataFileName]
        IN  /\ metadata.extraction_metadata.last_page
                  = raw.fetched[Len(raw.fetched)]
            /\ metadata.pages_extracted = Cardinality(PageFiles)
            /\ metadata.pages_extracted = Len(metadata.files_created)

=============================================================================
